---- MODULE Spec2Model ----
(***************************************************************************)
(* Model of scripts/pretrain.py: the corpus ingestion                      *)
(* MMapTextDataset.raw_text_to_mmap (chunk building, train/validation      *)
(* bucketing, shuffling and serialisation to uint16 cache files) and the   *)
(* lazily mapped dataset MMapTextDataset (__init__, __len__, __getitem__). *)
(***************************************************************************)
EXTENDS Integers, Sequences, FiniteSets, TLC

VARIABLES
    pc,               \* position of the current raw_text_to_mmap call
    seqlen,           \* args.seqlen
    train_dev_split,  \* args.train_dev_split, in hundredths
    len_tokenizer,    \* len(tokenizer)
    cacheExists,      \* os.path.exists(input_dir/cache/)
    trainBin,         \* input_dir/cache/train.bin
    valBin,           \* input_dir/cache/val.bin
    train_chunks,     \* list of chunks (lists of tokens)
    val_chunks,
    linesRead,        \* lines of the input files consumed by this call
    numDraws,         \* calls of random.random() made by this call
    tokens,           \* tokenizer.tokenize(line) of the last document
    draw,             \* value of the last random.random(), in hundredths
    handles,          \* MMapTextDataset objects, by slot
    result            \* value returned by the last __len__ / __getitem__

vars == <<pc, seqlen, train_dev_split, len_tokenizer, cacheExists, trainBin, valBin,
          train_chunks, val_chunks, linesRead, numDraws, tokens, draw, handles, result>>

ingestVars == <<pc, seqlen, train_dev_split, len_tokenizer, cacheExists,
                train_chunks, val_chunks, linesRead, numDraws, tokens, draw>>

-----------------------------------------------------------------------------
(* Bounds of the model *)

\* largest args.seqlen explored (the smallest is 2, where the builder breaks)
MaxSeqLen == 4
\* most tokens a document tokenizes to
MaxTokens == 2
\* most lines a call reads from the input files
MaxLines == 2
\* most chunks a bucket holds
MaxChunks == 3
\* most rows of a chunk list handed to _tokenized_text_to_mmap in SpecData
MaxRows == 2
\* most MMapTextDataset objects alive
MaxHandles == 2
\* largest chunk width of the chunk lists of SpecData
MaxWidth == 2

(* Program constants *)

\* assert len(tokenizer) < 65535
VocabLimit == 65535
\* np.uint16 holds values modulo 2^16
Uint16Mod == 65536
\* --train_dev_split default 0.05, in hundredths
DefaultSplit == 5

-----------------------------------------------------------------------------
(* The tokenizer *)

bos_token == "<s>"
pad_token == "<pad>"
eos_token == "</s>"

\* tokens a document tokenizes to
ContentTokens == {"a", "b"}

\* tokenizer.convert_tokens_to_ids on one token (RoBERTa numbers <s>, <pad>,
\* </s> 0, 1, 2; the two content tokens take ids in the upper half of uint16)
TokenId(t) ==
    CASE t = bos_token -> 0
      [] t = pad_token -> 1
      [] t = eos_token -> 2
      [] t = "a" -> 32768
      [] OTHER -> 65533

convert_tokens_to_ids(chunk) == [k \in 1..Len(chunk) |-> TokenId(chunk[k])]

SeqLens == 2..MaxSeqLen
VocabLens == {VocabLimit - 1, VocabLimit, VocabLimit + 1}
Splits == {0, DefaultSplit}
\* random.random() lies in [0, 1)
Draws == {0, DefaultSplit, DefaultSplit + 1}

\* the token sequences tokenizer.tokenize can return
Docs == UNION {[1..n -> ContentTokens] : n \in 0..MaxTokens}

-----------------------------------------------------------------------------
(* The chunk builder, lines 67-76 *)

\* [x] * n in Python: empty when n <= 0
Repeat(x, n) == [k \in 1..(IF n > 0 THEN n ELSE 0) |-> x]

\* lst[i] = x in Python, for 0 <= i < len(lst)
SetItem(lst, i, x) == [lst EXCEPT ![i + 1] = x]

RECURSIVE ChunkLoop_EarlySplit(_, _, _, _)
\* ChunkLoop with the fullness test one element early (seqlen - 2)
ChunkLoop_EarlySplit(toks, current_chunk, emitted, S) ==
    IF toks = <<>> THEN <<current_chunk, emitted>>
    ELSE IF Len(current_chunk) = S - 2
         THEN ChunkLoop_EarlySplit(Tail(toks), <<bos_token, Head(toks)>>,
                        Append(emitted, Append(current_chunk, eos_token)), S)
         ELSE ChunkLoop_EarlySplit(Tail(toks), Append(current_chunk, Head(toks)),
                        emitted, S)

RECURSIVE ChunkLoop(_, _, _, _)
\* the loop "for token in tokens": returns <<current_chunk, chunks emitted>>
ChunkLoop(toks, current_chunk, emitted, S) ==
    IF toks = <<>> THEN <<current_chunk, emitted>>
    ELSE IF Len(current_chunk) = S - 1
         THEN ChunkLoop(Tail(toks), <<bos_token, Head(toks)>>,
                        Append(emitted, Append(current_chunk, eos_token)), S)
         ELSE ChunkLoop(Tail(toks), Append(current_chunk, Head(toks)), emitted, S)

\* FinishChunk without the final write of the end marker
FinishChunk_NoEos(current_chunk, S) ==
    current_chunk \o Repeat(pad_token, S - Len(current_chunk))

\* FinishChunk writing the end marker one position early (seqlen - 2)
FinishChunk_OffByOne(current_chunk, S) ==
    SetItem(current_chunk \o Repeat(pad_token, S - Len(current_chunk)), S - 2, eos_token)

\* FinishChunk appending the end marker to the content before padding
FinishChunk_EosAfterContent(current_chunk, S) ==
    IF Len(current_chunk) < S
    THEN current_chunk \o <<eos_token>> \o Repeat(pad_token, S - Len(current_chunk) - 1)
    ELSE SetItem(current_chunk, S - 1, eos_token)

\* pad the last chunk, then write the end marker into position seqlen - 1
FinishChunk(current_chunk, S) ==
    SetItem(current_chunk \o Repeat(pad_token, S - Len(current_chunk)), S - 1, eos_token)

\* all chunks appended to chunks_list for one document
BuildChunks(toks, S) ==
    LET r == ChunkLoop(toks, <<bos_token>>, <<>>, S)
    IN  Append(r[2], FinishChunk(r[1], S))

\* PicksTrain comparing with >= instead of >
PicksTrain_AtLeast(d, split) == d >= split

\* random.random() > args.train_dev_split selects train_chunks
PicksTrain(d, split) == d > split

-----------------------------------------------------------------------------
(* The filesystem *)

NoFile == [state |-> "absent", data |-> <<>>]

\* a cache file that was created but whose write did not complete
PartialFile == [state |-> "partial", data |-> <<>>]

Running == {"reading", "write_train", "write_val"}

\* both cache files written and flushed
Complete == trainBin.state = "flushed" /\ valBin.state = "flushed"

-----------------------------------------------------------------------------
(* raw_text_to_mmap, lines 44-92 *)

\* EnterOutcome without the cache guard
EnterOutcome_NoGuard(vlen, exists) ==
    IF ~(vlen < VocabLimit) THEN "fatal" ELSE "reading"

\* EnterOutcome asserting len(tokenizer) <= 65535
EnterOutcome_OffByOne(vlen, exists) ==
    IF ~(vlen <= VocabLimit) THEN "fatal"
    ELSE IF exists THEN "skipped"
    ELSE "reading"

\* lines 45-52: the vocabulary assertion, then the cache guard, then mkdir
EnterOutcome(vlen, exists) ==
    IF ~(vlen < VocabLimit) THEN "fatal"
    ELSE IF exists THEN "skipped"
    ELSE "reading"

\* a call of raw_text_to_mmap(args) up to the start of the loop over the files;
\* args.seqlen and args.train_dev_split are those of the command line, kept
\* from call to call, and args.tokenizer names the tokenizer loaded
Enter(vlen) ==
    /\ pc \notin Running
    /\ pc' = EnterOutcome(vlen, cacheExists)
    /\ len_tokenizer' = vlen
    /\ cacheExists' = (cacheExists \/ pc' = "reading")
    /\ train_chunks' = <<>>
    /\ val_chunks' = <<>>
    /\ linesRead' = 0
    /\ numDraws' = 0
    /\ tokens' = <<>>
    /\ draw' = 0
    /\ UNCHANGED <<seqlen, train_dev_split, trainBin, valBin, handles, result>>

\* lines 60-76: one line of an input file
ProcessLine(blank, toks, d) ==
    /\ pc = "reading"
    /\ linesRead < MaxLines
    /\ linesRead' = linesRead + 1
    /\ IF blank
       THEN UNCHANGED <<train_chunks, val_chunks, numDraws, tokens, draw>>
       ELSE /\ draw' = d
            /\ numDraws' = numDraws + 1
            /\ tokens' = toks
            /\ IF PicksTrain(d, train_dev_split)
               THEN /\ train_chunks' = train_chunks \o BuildChunks(toks, seqlen)
                    /\ Len(train_chunks') <= MaxChunks
                    /\ UNCHANGED val_chunks
               ELSE /\ val_chunks' = val_chunks \o BuildChunks(toks, seqlen)
                    /\ Len(val_chunks') <= MaxChunks
                    /\ UNCHANGED train_chunks
    /\ UNCHANGED <<pc, seqlen, train_dev_split, len_tokenizer, cacheExists,
                   trainBin, valBin, handles, result>>

\* line 58: the loop over all_files ends
EndOfInput ==
    /\ pc = "reading"
    /\ pc' = "write_train"
    /\ UNCHANGED <<seqlen, train_dev_split, len_tokenizer, cacheExists, trainBin, valBin,
                   train_chunks, val_chunks, linesRead, numDraws, tokens, draw,
                   handles, result>>

-----------------------------------------------------------------------------
(* _tokenized_text_to_mmap, lines 78-89 *)

\* all_token_ids[k, :] = [int(t) for t in token_ids] into a uint16 array
ToUint16(x) == x % Uint16Mod

RECURSIVE Flatten(_)
\* row-major layout of the (num_chunks, seqlen) array in the file
Flatten(rows) ==
    IF rows = <<>> THEN <<>> ELSE Head(rows) \o Flatten(Tail(rows))

\* the rows written for a shuffled chunk list
RowsOf(chunks_list) ==
    [k \in 1..Len(chunks_list) |->
        [j \in 1..Len(chunks_list[k]) |-> ToUint16(convert_tokens_to_ids(chunks_list[k])[j])]]

\* assert len(token_ids) == args.seqlen, for every chunk
LengthsOk(chunks_list, S) ==
    \A k \in 1..Len(chunks_list) : Len(convert_tokens_to_ids(chunks_list[k])) = S

\* random.shuffle(chunks_list): the lists it can leave
Shuffles(chunks_list) ==
    {[k \in 1..Len(chunks_list) |-> chunks_list[p[k]]] :
        p \in Permutations(1..Len(chunks_list))}

\* outcome of one call on chunks_list: <<shuffled list, file, pc>>; an empty
\* array either cannot be mapped (np.memmap raises on the empty file it
\* created) or is written as a file of no rows, depending on the numpy build
WriteOutcomes(chunks_list, file, S, next) ==
    {<<sh, IF ~LengthsOk(sh, S) THEN file
           ELSE IF sh = <<>> /\ ~ok THEN PartialFile
           ELSE [state |-> "flushed", data |-> Flatten(RowsOf(sh))],
       IF ~LengthsOk(sh, S) THEN "assert_failed"
           ELSE IF sh = <<>> /\ ~ok THEN "aborted"
           ELSE next>> :
        sh \in Shuffles(chunks_list), ok \in BOOLEAN}

\* line 91
WriteTrain ==
    /\ pc = "write_train"
    /\ \E o \in WriteOutcomes(train_chunks, trainBin, seqlen, "write_val") :
          /\ train_chunks' = o[1]
          /\ trainBin' = o[2]
          /\ pc' = o[3]
    /\ UNCHANGED <<seqlen, train_dev_split, len_tokenizer, cacheExists, valBin,
                   val_chunks, linesRead, numDraws, tokens, draw, handles, result>>

\* line 92
WriteVal ==
    /\ pc = "write_val"
    /\ \E o \in WriteOutcomes(val_chunks, valBin, seqlen, "done") :
          /\ val_chunks' = o[1]
          /\ valBin' = o[2]
          /\ pc' = o[3]
    /\ UNCHANGED <<seqlen, train_dev_split, len_tokenizer, cacheExists, trainBin,
                   train_chunks, linesRead, numDraws, tokens, draw, handles, result>>

\* Abort with a handler that removes cache/ and what is in it
Abort_Cleanup(created) ==
    /\ pc \in Running
    /\ pc' = "aborted"
    /\ cacheExists' = FALSE
    /\ trainBin' = NoFile
    /\ valBin' = NoFile
    /\ UNCHANGED <<seqlen, train_dev_split, len_tokenizer,
                   train_chunks, val_chunks, linesRead, numDraws, tokens, draw,
                   handles, result>>

\* an exception or a kill anywhere in lines 58-92: nothing catches it and
\* nothing removes cache/; a file being written may have been created
Abort(created) ==
    /\ pc \in Running
    /\ pc' = "aborted"
    /\ trainBin' = IF pc = "write_train" /\ created THEN PartialFile ELSE trainBin
    /\ valBin' = IF pc = "write_val" /\ created THEN PartialFile ELSE valBin
    /\ UNCHANGED <<seqlen, train_dev_split, len_tokenizer, cacheExists,
                   train_chunks, val_chunks, linesRead, numDraws, tokens, draw,
                   handles, result>>

\* line 50: the user removes the cache directory to regenerate
DeleteCache ==
    /\ pc \notin Running
    /\ cacheExists
    /\ cacheExists' = FALSE
    /\ trainBin' = NoFile
    /\ valBin' = NoFile
    /\ UNCHANGED <<pc, seqlen, train_dev_split, len_tokenizer,
                   train_chunks, val_chunks, linesRead, numDraws, tokens, draw,
                   handles, result>>

-----------------------------------------------------------------------------
(* MMapTextDataset, lines 23-41 *)

NoResult == [op |-> "none"]

\* a slot holding no object
NoHandle == [proc |-> -1]

FileOf(name) == IF name = "train" THEN trainBin ELSE valBin

\* a byte read as a signed 8-bit value
SignedByte(b) == IF b >= 128 THEN b - 256 ELSE b

\* Widen through np.int16: the two bytes read as a signed 16-bit integer
Widen_Int16(u) ==
    LET b0 == u % 256
        b1 == (u \div 256) % 256
    IN  b0 + 256 * SignedByte(b1)

\* .astype(np.int32) of a uint16 element, then torch.long: the two bytes of
\* the element are zero-extended to four and read as a signed integer (the
\* further widening to 64 bits sign-extends, which keeps the value)
Widen(u) ==
    LET b0 == u % 256
        b1 == (u \div 256) % 256
    IN  b0 + 256 * b1 + 65536 * 0 + 16777216 * SignedByte(0)

\* token_ids[i, :] of the mapping of shape (num_instances, chunk_size)
MappedRow(data, chunk_size, i) == [k \in 1..chunk_size |-> data[i * chunk_size + k]]

\* lowest free slot
FreeSlot == CHOOSE h \in 1..MaxHandles :
                handles[h] = NoHandle /\ \A g \in 1..(h - 1) : handles[g] # NoHandle

\* __init__, lines 24-32, called with chunk_size = args.seqlen at line 178
\* once raw_text_to_mmap has returned (line 109); np.memmap raises on a
\* missing or empty file
Construct(name) ==
    /\ pc \in {"done", "skipped"}
    /\ \E h \in 1..MaxHandles : handles[h] = NoHandle
    /\ FileOf(name).state # "absent"
    /\ Len(FileOf(name).data) > 0
    /\ handles' = [handles EXCEPT ![FreeSlot] =
                      [proc |-> 0,
                       num_instances |-> Len(FileOf(name).data) \div seqlen,
                       token_ids |-> "None",
                       mmap_filename |-> name,
                       chunk_size |-> seqlen]]
    /\ UNCHANGED <<ingestVars, trainBin, valBin, result>>

\* __len__, lines 34-35
LenOp(h) ==
    /\ handles[h] # NoHandle
    /\ result' = [op |-> "len", h |-> h, value |-> handles[h].num_instances]
    /\ UNCHANGED <<ingestVars, trainBin, valBin, handles>>

\* __getitem__, lines 37-41
GetItem(h, i) ==
    /\ handles[h] # NoHandle
    /\ i \in 0..(handles[h].num_instances - 1)
    /\ handles' = [handles EXCEPT ![h].token_ids = "open"]
    /\ result' = [op |-> "getitem", h |-> h, i |-> i,
                  value |-> [k \in 1..handles[h].chunk_size |->
                               Widen(MappedRow(FileOf(handles[h].mmap_filename).data,
                                               handles[h].chunk_size, i)[k])]]
    /\ UNCHANGED <<ingestVars, trainBin, valBin>>

\* the object as another process receives it (fork, or pickle and unpickle):
\* the class defines no __getstate__ / __reduce__, every attribute is carried over
CopiedHandle(src, slot) == [src EXCEPT !.proc = slot]

\* a data-loading worker process receives a copy of the dataset, lines 187-195
Copy(h) ==
    /\ handles[h] # NoHandle
    /\ \E g \in 1..MaxHandles : handles[g] = NoHandle
    /\ handles' = [handles EXCEPT ![FreeSlot] = CopiedHandle(handles[h], FreeSlot)]
    /\ UNCHANGED <<ingestVars, trainBin, valBin, result>>

-----------------------------------------------------------------------------
(* The ingestion, run any number of times *)

Init ==
    /\ pc = "idle"
    /\ seqlen \in SeqLens
    /\ train_dev_split \in Splits
    /\ len_tokenizer = VocabLimit - 1
    /\ cacheExists = FALSE
    /\ trainBin = NoFile
    /\ valBin = NoFile
    /\ train_chunks = <<>>
    /\ val_chunks = <<>>
    /\ linesRead = 0
    /\ numDraws = 0
    /\ tokens = <<>>
    /\ draw = 0
    /\ handles = [h \in 1..MaxHandles |-> NoHandle]
    /\ result = NoResult

Next ==
    \/ \E vlen \in VocabLens : Enter(vlen)
    \/ \E blank \in BOOLEAN, toks \in Docs, d \in Draws : ProcessLine(blank, toks, d)
    \/ EndOfInput
    \/ WriteTrain
    \/ WriteVal
    \/ \E created \in BOOLEAN : Abort(created)
    \/ DeleteCache

Spec == Init /\ [][Next]_vars

-----------------------------------------------------------------------------
(* _tokenized_text_to_mmap on a given chunk list, then the dataset over it *)

\* tokens of the chunk lists handed to _tokenized_text_to_mmap
DataTokens == {bos_token, "b"}

\* chunk lists of one to MaxRows chunks of S tokens each (what an empty
\* list leads to is explored in Spec)
ChunkLists(S) == UNION {[1..n -> [1..S -> DataTokens]] : n \in 1..MaxRows}

\* the validation bucket: one chunk of one repeated token
ValLists(S) == {<<[k \in 1..S |-> t]>> : t \in DataTokens}

\* the state at line 91, cache/ made and the buckets filled
InitData ==
    /\ pc = "write_train"
    /\ seqlen \in 1..MaxWidth
    /\ train_dev_split = DefaultSplit
    /\ len_tokenizer = VocabLimit - 1
    /\ cacheExists = TRUE
    /\ trainBin = NoFile
    /\ valBin = NoFile
    /\ train_chunks \in ChunkLists(seqlen)
    /\ val_chunks \in ValLists(seqlen)
    /\ linesRead = 0
    /\ numDraws = 0
    /\ tokens = <<>>
    /\ draw = 0
    /\ handles = [h \in 1..MaxHandles |-> NoHandle]
    /\ result = NoResult

NextData ==
    \/ WriteTrain
    \/ WriteVal
    \/ \E name \in {"train", "val"} : Construct(name)
    \/ \E h \in 1..MaxHandles : LenOp(h)
    \/ \E h \in 1..MaxHandles, i \in 0..(MaxRows - 1) : GetItem(h, i)
    \/ \E h \in 1..MaxHandles : Copy(h)

SpecData == InitData /\ [][NextData]_vars

-----------------------------------------------------------------------------
(* Properties *)

\* every chunk of both buckets
AllChunks == {train_chunks[k] : k \in 1..Len(train_chunks)}
                \cup {val_chunks[k] : k \in 1..Len(val_chunks)}

\* the chunks a step appended to the buckets
AppendedChunks ==
    SubSeq(train_chunks', Len(train_chunks) + 1, Len(train_chunks'))
        \o SubSeq(val_chunks', Len(val_chunks) + 1, Len(val_chunks'))

\* a step that processed one document (a non-empty line)
DocumentStep == pc = "reading" /\ pc' = "reading" /\ numDraws' = numDraws + 1

\* a step that is a call of raw_text_to_mmap
IsCall == \E vlen \in VocabLens : Enter(vlen)

RECURSIVE TakeContent(_)
\* the leading elements of s that are neither the end marker nor padding
TakeContent(s) ==
    IF s = <<>> \/ Head(s) \in {eos_token, pad_token} THEN <<>>
    ELSE <<Head(s)>> \o TakeContent(Tail(s))

RECURSIVE Contents(_)
\* the content of a list of chunks, in order: from each, what follows the
\* begin marker up to the end marker or pad filler
Contents(chunks) ==
    IF chunks = <<>> THEN <<>>
    ELSE TakeContent(Tail(Head(chunks))) \o Contents(Tail(chunks))

\* ceil(a / b) for a >= 0, b > 0
CeilDiv(a, b) == (a + b - 1) \div b

\* C1: for seqlen >= 3 every chunk in a bucket has exactly seqlen elements,
\* starts with the begin marker and ends with the end marker, and the length
\* assertion of _tokenized_text_to_mmap never fails.
C1_ChunkShape ==
    seqlen >= 3 =>
        /\ pc # "assert_failed"
        /\ \A c \in AllChunks :
              Len(c) = seqlen /\ c[1] = bos_token /\ c[seqlen] = eos_token

\* C1 witness: a document was split into several chunks and the bucket holding
\* them passed the assertion and was written.
C1_Witness ==
    /\ seqlen >= 3
    /\ pc = "write_val"
    /\ trainBin.state = "flushed"
    /\ Len(train_chunks) >= 2
    /\ Len(tokens) > seqlen - 2

\* C2: for seqlen >= 3 the chunks appended for a document, read in order,
\* carry exactly the document's tokens between the markers: none dropped,
\* duplicated, reordered or overwritten.
C2_Coverage ==
    [][(DocumentStep /\ seqlen >= 3) => Contents(AppendedChunks) = tokens']_vars

\* C2 witness: a document of two different tokens was split over chunks.
C2_Witness ==
    /\ pc = "reading"
    /\ seqlen >= 3
    /\ numDraws > 0
    /\ Len(tokens) > seqlen - 2
    /\ tokens[1] # tokens[2]

\* C3 as stated: a document of T tokens yields ceil((T + 2) / (seqlen - 1))
\* chunks when T > 0 and one chunk when T = 0 (stated for seqlen >= 3).
C3_Original ==
    [][(DocumentStep /\ seqlen >= 3) =>
          Len(AppendedChunks) =
              IF Len(tokens') = 0 THEN 1
              ELSE CeilDiv(Len(tokens') + 2, seqlen - 1)]_vars

\* C3 amended: for seqlen >= 3 a document of T tokens yields
\* ceil(T / (seqlen - 2)) chunks when T > 0 and one chunk when T = 0.
C3_ChunkCount ==
    [][(DocumentStep /\ seqlen >= 3) =>
          Len(AppendedChunks) =
              IF Len(tokens') = 0 THEN 1
              ELSE CeilDiv(Len(tokens'), seqlen - 2)]_vars

\* C3 witness: a document of exactly seqlen - 2 tokens gave one chunk, where
\* the stated formula gives two.
C3_Witness ==
    /\ pc = "reading"
    /\ seqlen >= 3
    /\ numDraws = 1
    /\ Len(tokens) = seqlen - 2
    /\ Len(train_chunks) + Len(val_chunks) = 1

\* C4 as stated: a document of T < seqlen - 2 tokens gives the one chunk
\* begin marker, content, end marker right after the content, then padding.
C4_Original ==
    [][(DocumentStep /\ Len(tokens') < seqlen - 2) =>
          AppendedChunks =
              << <<bos_token>> \o tokens' \o <<eos_token>>
                   \o Repeat(pad_token, seqlen - Len(tokens') - 2) >>]_vars

\* C4 amended: a document of T < seqlen - 2 tokens gives the one chunk
\* begin marker, content, padding up to position seqlen - 2, and the end
\* marker in the last position seqlen - 1.
C4_ShortLayout ==
    [][(DocumentStep /\ Len(tokens') < seqlen - 2) =>
          AppendedChunks =
              << <<bos_token>> \o tokens'
                   \o Repeat(pad_token, seqlen - Len(tokens') - 2)
                   \o <<eos_token>> >>]_vars

\* C4 witness: a one-token document at seqlen 4 or more, chunked with padding
\* between its content and the end marker.
C4_Witness ==
    /\ pc = "reading"
    /\ numDraws > 0
    /\ Len(tokens) = 1
    /\ Len(tokens) < seqlen - 2
    /\ \E c \in AllChunks : c[2] = tokens[1] /\ c[3] = pad_token /\ c[seqlen] = eos_token

\* C6: a call made while cache/ exists, with a valid tokenizer, returns as
\* skipped: it leaves cache/, train.bin and val.bin as they are and reads no
\* line of the input.
C6_SkipIsNoOp ==
    [][(IsCall /\ cacheExists /\ len_tokenizer' < VocabLimit) =>
          /\ pc' = "skipped"
          /\ cacheExists'
          /\ trainBin' = trainBin
          /\ valBin' = valBin
          /\ linesRead' = 0
          /\ train_chunks' = <<>> /\ val_chunks' = <<>>]_vars

\* C6 witness: a later call skipped over the files a first call had written.
C6_Witness ==
    /\ pc = "skipped"
    /\ Complete
    /\ trainBin.data # <<>>
    /\ valBin.data # <<>>

\* C7: a call with len(tokenizer) >= 65535 fails before any file I/O: no line
\* is read, cache/ is not created, and neither cache file is touched.
C7_VocabOverflow ==
    [][(IsCall /\ len_tokenizer' >= VocabLimit) =>
          /\ pc' = "fatal"
          /\ cacheExists' = cacheExists
          /\ trainBin' = trainBin
          /\ valBin' = valBin
          /\ linesRead' = 0]_vars

\* C7 witness: a call failed on a vocabulary of exactly 65535 and left no cache/.
C7_Witness ==
    /\ pc = "fatal"
    /\ len_tokenizer = VocabLimit
    /\ ~cacheExists
    /\ trainBin = NoFile /\ valBin = NoFile

C10_NoRecovery ==
    [][/\ (pc \in Running /\ pc' \notin Running) =>
              (cacheExists' /\ (Complete' <=> pc' = "done"))
       /\ (IsCall /\ cacheExists /\ ~Complete /\ len_tokenizer' < VocabLimit) =>
              (pc' = "skipped" /\ cacheExists' /\ ~Complete')]_vars

\* C10 witness: a call skipped although train.bin was written and val.bin
\* was not.
C10_Witness ==
    /\ pc = "skipped"
    /\ cacheExists
    /\ trainBin.state = "flushed"
    /\ valBin.state # "flushed"

\* the chunk list written to the file a handle names, in its shuffled order
WrittenTo(name) == IF name = "train" THEN train_chunks ELSE val_chunks

\* C5: once a chunk list is written, every dataset over the file reports as
\* many instances as chunks were written, and every __getitem__(i) returns
\* the ids of the i-th chunk of the shuffled list, value for value.
C5_RoundTrip ==
    \A h \in 1..MaxHandles :
        handles[h] # NoHandle =>
            LET written == WrittenTo(handles[h].mmap_filename)
            IN  /\ handles[h].num_instances = Len(written)
                /\ (result.op = "len" /\ result.h = h) =>
                       result.value = Len(written)
                /\ (result.op = "getitem" /\ result.h = h) =>
                       result.value = convert_tokens_to_ids(written[result.i + 1])

\* C5 witness: the second of two different rows was read back, with the
\* largest id in it.
C5_Witness ==
    /\ result.op = "getitem"
    /\ result.i = 1
    /\ handles[result.h].mmap_filename = "train"
    /\ handles[result.h].token_ids = "open"
    /\ train_chunks[1] # train_chunks[2]
    /\ \E k \in 1..seqlen : result.value[k] = 65533

====
